---------------------------- MODULE Spec2Model ----------------------------
(***************************************************************************)
(* Degree-Constrained Minimum Spanning Tree solvers (DAA-Project).         *)
(*                                                                         *)
(* The five solvers (brute force, greedy, local search, simulated          *)
(* annealing, tabu search) and the graph helpers they call, as a state     *)
(* machine: Init draws an instance, a Start action enters one solver with  *)
(* the code that precedes its loop, and one action per loop iteration      *)
(* follows.                                                                *)
(*                                                                         *)
(* Edges come in the two representations of the source: triples            *)
(* <<u, v, weight>> (brute_force.py, local_search.py) and pairs <<u, v>>   *)
(* resolved through graph["weights"] (greedy.py, tabu_search.py,           *)
(* simulated_annealing.py, utils/graph.py).                                *)
(***************************************************************************)
EXTENDS Integers, Sequences, FiniteSets, TLC

(***************************************************************************)
(* Bounds of the model.                                                    *)
(***************************************************************************)
MaxWeight == 3
MaxDegreeBound == 2
MaxTenure == 4
MaxIterations == 5
InitialTemperature == 4
MinTemperature == 1
CoolingNum == 1
CoolingDen == 2

(***************************************************************************)
(* float("inf") of brute_force.py:116 and tabu_search.py:32.  Costs are    *)
(* sums of non-negative weights, so a negative number is free to stand     *)
(* for it; LessThan is Python's < on costs with that value.                *)
(***************************************************************************)
Inf == -1

LessThan(a, b) == IF a = Inf THEN FALSE ELSE IF b = Inf THEN TRUE ELSE a < b

(***************************************************************************)
(* Generic helpers on sequences and sets.                                  *)
(***************************************************************************)
Range(s) == {s[i] : i \in DOMAIN s}

Min(S) == CHOOSE x \in S : \A y \in S : x <= y

RECURSIVE SetToSeq(_)
SetToSeq(S) == IF S = {} THEN <<>>
               ELSE LET x == CHOOSE y \in S : TRUE IN <<x>> \o SetToSeq(S \ {x})

RECURSIVE SumSeq(_)
SumSeq(s) == IF s = <<>> THEN 0 ELSE Head(s) + SumSeq(Tail(s))

RemoveAt(s, i) == SubSeq(s, 1, i - 1) \o SubSeq(s, i + 1, Len(s))

(***************************************************************************)
(* instances/generator.py.  generate_graph builds                          *)
(* vertices = set(range(num_vertices)), the edges (i, j, weight) for i < j *)
(* in the order of its two loops, and uniform degree bounds.  A draw w     *)
(* gives the weight of each pair, w[k] = 0: the k-th pair is no edge.      *)
(***************************************************************************)
Vertices == {0, 1, 2}

RECURSIVE PairsFrom(_, _)
PairsFrom(i, j) ==
    IF i >= Cardinality(Vertices) - 1 THEN <<>>
    ELSE IF j > Cardinality(Vertices) - 1 THEN PairsFrom(i + 1, i + 2)
    ELSE <<<<i, j>>>> \o PairsFrom(i, j + 1)

PairSeq == PairsFrom(0, 1)

RECURSIVE EdgesOf(_, _)
EdgesOf(w, k) ==
    IF k > Len(PairSeq) THEN <<>>
    ELSE IF w[k] = 0 THEN EdgesOf(w, k + 1)
    ELSE <<<<PairSeq[k][1], PairSeq[k][2], w[k]>>>> \o EdgesOf(w, k + 1)

(* generator.py:43-44: every keyword argument beyond the four parameters   *)
(* is handed to random.seed, which knows the keywords a and version;       *)
(* another one (seed, for one) raises TypeError.                           *)
seed_accepts(keywords) == keywords \subseteq {"a", "version"}

no_instance(error) ==
    [raised |-> TRUE, error |-> error, vertices |-> {}, edges |-> <<>>,
     degree_bounds |-> <<>>]

(* generate_graph(num_vertices = 3, ..., degree_bound, **seed) drawing w. *)
generate_graph(w, degree_bound, keywords) ==
    IF ~seed_accepts(keywords) THEN no_instance("TypeError")
    ELSE [raised |-> FALSE, error |-> "", vertices |-> Vertices,
          edges |-> EdgesOf(w, 1),
          degree_bounds |-> [v \in Vertices |-> degree_bound]]

(* The for loop of generate_feasible_instance from the k-th attempt on;    *)
(* draws[k] is what the k-th call of generate_graph draws, and a generator *)
(* seeded anew by every call (keyword a) draws the same each time.         *)
RECURSIVE gfi_attempts(_, _, _, _)
gfi_attempts(draws, k, degree_bound, keywords) ==
    IF k > Len(draws) THEN no_instance("RuntimeError")
    ELSE LET w == IF "a" \in keywords THEN draws[1] ELSE draws[k]
             g == generate_graph(w, degree_bound, keywords)
         IN IF g.raised THEN g
            ELSE IF Len(g.edges) >= Cardinality(g.vertices) - 1 THEN g
            ELSE gfi_attempts(draws, k + 1, degree_bound, keywords)

(* generate_feasible_instance(..., max_attempts = Len(draws), **seed). *)
generate_feasible_instance(draws, degree_bound, keywords) ==
    gfi_attempts(draws, 1, degree_bound, keywords)

(***************************************************************************)
(* The scenario graph of the specification's section 8 (four vertices),    *)
(* with the scenario's degree bounds (2 everywhere).                       *)
(***************************************************************************)
ScenarioVertices == {0, 1, 2, 3}
ScenarioEdges == << <<0, 1, 1>>, <<1, 2, 1>>, <<2, 3, 1>>, <<0, 3, 10>>, <<0, 2, 5>> >>
ScenarioBounds == [v \in ScenarioVertices |-> 2]

(***************************************************************************)
(* A graph generate_graph can draw for four vertices and degree bound 2:   *)
(* a triangle 0-1-2 and the vertex 3 hanging from 0.  It has the feasible  *)
(* spanning tree 0-3, 0-1, 1-2, and the greedy constructor leaves vertex 3 *)
(* out of its result.                                                      *)
(***************************************************************************)
PendantVertices == {0, 1, 2, 3}
PendantEdges == << <<0, 1, 3>>, <<0, 2, 1>>, <<0, 3, 1>>, <<1, 2, 1>> >>
PendantBounds == [v \in PendantVertices |-> 2]

(***************************************************************************)
(* A graph on five vertices with bounds of its own, for tabu_search.  From *)
(* the seed 0-3, 4-0, 2-3, 1-2 the swap of 1-2 for 1-0 improves the tree;  *)
(* three swaps of equal cost later (2-3 for 1-2, 1-0 for 2-0, 4-0 for 2-4) *)
(* the same swap, still in a tabu list of capacity 4, would lead to a tree *)
(* cheaper than any visited.                                               *)
(***************************************************************************)
DetourVertices == {0, 1, 2, 3, 4}
DetourEdges == << <<0, 3, 1>>, <<1, 0, 1>>, <<2, 0, 1>>, <<4, 0, 1>>, <<2, 3, 2>>,
                  <<1, 2, 2>>, <<2, 4, 1>> >>
DetourBounds == (0 :> 3) @@ (1 :> 3) @@ (2 :> 3) @@ (3 :> 2) @@ (4 :> 1)

(***************************************************************************)
(* run_experiment.separate_weights_edges: the pair form of an edge list.   *)
(***************************************************************************)
PairOf(e) == <<e[1], e[2]>>

separate_weights_edges(es) ==
    [weights |-> [p \in {PairOf(es[i]) : i \in DOMAIN es}
                        \cup {<<es[i][2], es[i][1]>> : i \in DOMAIN es} |->
                    LET i == CHOOSE k \in DOMAIN es :
                                 /\ {es[k][1], es[k][2]} = {p[1], p[2]}
                                 /\ \A m \in DOMAIN es :
                                        {es[m][1], es[m][2]} = {p[1], p[2]} => m <= k
                    IN es[i][3]],
     list_edges |-> [i \in DOMAIN es |-> PairOf(es[i])]]

Graph(vs, es) ==
    [vertices |-> vs,
     edges |-> separate_weights_edges(es).list_edges,
     weights |-> separate_weights_edges(es).weights]

(***************************************************************************)
(* brute_force.py                                                          *)
(***************************************************************************)
RECURSIVE bf_visit(_, _, _)
bf_visit(adjacency, stack, visited) ==
    IF stack = <<>> THEN visited
    ELSE LET current == stack[Len(stack)]
             rest == SubSeq(stack, 1, Len(stack) - 1)
         IN IF current \notin visited
            THEN bf_visit(adjacency,
                          rest \o SetToSeq(adjacency[current] \ (visited \cup {current})),
                          visited \cup {current})
            ELSE bf_visit(adjacency, rest, visited)

bf_is_connected(vs, es) ==
    IF vs = {} THEN TRUE
    ELSE LET adjacency == [x \in vs |->
                 {es[i][2] : i \in {k \in DOMAIN es : es[k][1] = x}}
                 \cup {es[i][1] : i \in {k \in DOMAIN es : es[k][2] = x}}]
         IN bf_visit(adjacency, <<Min(vs)>>, {}) = vs

RECURSIVE bf_find(_, _)
bf_find(parent, x) == IF parent[x] = x THEN x ELSE bf_find(parent, parent[x])

RECURSIVE has_cycle_from(_, _, _)
has_cycle_from(parent, es, i) ==
    IF i > Len(es) THEN FALSE
    ELSE LET rx == bf_find(parent, es[i][1])
             ry == bf_find(parent, es[i][2])
         IN IF rx = ry THEN TRUE
            ELSE has_cycle_from([parent EXCEPT ![ry] = rx], es, i + 1)

has_cycle(vs, es) == has_cycle_from([x \in vs |-> x], es, 1)

RECURSIVE bf_degrees_ok(_, _, _, _)
bf_degrees_ok(degrees, es, i, bounds) ==
    IF i > Len(es) THEN TRUE
    ELSE LET u == es[i][1]
             v == es[i][2]
             d1 == [degrees EXCEPT ![u] = @ + 1]
             d2 == [d1 EXCEPT ![v] = @ + 1]
         IN IF d2[u] > bounds[u] \/ d2[v] > bounds[v] THEN FALSE
            ELSE bf_degrees_ok(d2, es, i + 1, bounds)

(* Mutant: >= for > in the test of brute_force.py:81. *)
bf_respects_degree_constraints_strict(es, bounds) ==
    bf_degrees_ok([x \in DOMAIN bounds |-> 1], es, 1, bounds)

bf_respects_degree_constraints(es, bounds) ==
    bf_degrees_ok([x \in DOMAIN bounds |-> 0], es, 1, bounds)

tree_cost(es) == SumSeq([i \in DOMAIN es |-> es[i][3]])

(* itertools.combinations(range(lo, hi + 1), r), in its order. *)
RECURSIVE Combinations(_, _, _)
Combinations(lo, hi, r) ==
    IF r = 0 THEN << <<>> >>
    ELSE IF hi - lo + 1 < r THEN <<>>
    ELSE LET with == Combinations(lo + 1, hi, r - 1)
         IN [k \in DOMAIN with |-> <<lo>> \o with[k]] \o Combinations(lo + 1, hi, r)

(* Mutants of the comparison of brute_force.py:131: no comparison (the     *)
(* last feasible candidate is kept), and the comparison reversed.          *)
bf_better_always(cost, best_cost) == TRUE

bf_better_reversed(cost, best_cost) == best_cost = Inf \/ cost > best_cost

(* The comparison of brute_force.py:131. *)
bf_better(cost, best_cost) == LessThan(cost, best_cost)

(* The loop of brute_force_dc_mst over the candidates from position k on. *)
RECURSIVE bf_loop(_, _, _, _, _, _)
bf_loop(vs, es, bounds, combos, k, best) ==
    IF k > Len(combos) THEN best
    ELSE LET candidate == [i \in DOMAIN combos[k] |-> es[combos[k][i]]]
         IN IF has_cycle(vs, candidate)
            THEN bf_loop(vs, es, bounds, combos, k + 1, best)
            ELSE IF ~bf_is_connected(vs, candidate)
            THEN bf_loop(vs, es, bounds, combos, k + 1, best)
            ELSE IF ~bf_respects_degree_constraints(candidate, bounds)
            THEN bf_loop(vs, es, bounds, combos, k + 1, best)
            ELSE LET cost == tree_cost(candidate)
                 IN IF bf_better(cost, best.best_cost)
                    THEN bf_loop(vs, es, bounds, combos, k + 1,
                                 [best_tree |-> candidate, best_cost |-> cost,
                                  is_none |-> FALSE])
                    ELSE bf_loop(vs, es, bounds, combos, k + 1, best)

(* The outcome of brute_force_dc_mst: raised (ValueError) or the tree. *)
brute_force_dc_mst(vs, es, bounds) ==
    LET n == Cardinality(vs)
        best == bf_loop(vs, es, bounds, Combinations(1, Len(es), n - 1), 1,
                        [best_tree |-> <<>>, best_cost |-> Inf, is_none |-> TRUE])
    IN [raised |-> best.is_none, tree |-> best.best_tree]

(***************************************************************************)
(* utils/graph.py (pair form)                                              *)
(***************************************************************************)
(* total_cost over a list of pairs, in list order. *)
total_cost(graph, tree_edges) ==
    SumSeq([i \in DOMAIN tree_edges |-> graph.weights[tree_edges[i]]])

(* total_cost over a set of pairs (the sum does not depend on the order). *)
RECURSIVE total_cost_set(_, _)
total_cost_set(graph, tree_edges) ==
    IF tree_edges = {} THEN 0
    ELSE LET e == CHOOSE x \in tree_edges : TRUE
         IN graph.weights[e] + total_cost_set(graph, tree_edges \ {e})

(***************************************************************************)
(* UnionFind (src/utils/union_find.py holds no such class; after section   *)
(* 4.1 of the specification): find with path compression, union by rank.   *)
(***************************************************************************)
UnionFind(vs) == [parent |-> [x \in vs |-> x], rank |-> [x \in vs |-> 0]]

RECURSIVE uf_root(_, _)
uf_root(parent, v) == IF parent[v] = v THEN v ELSE uf_root(parent, parent[v])

RECURSIVE uf_path(_, _)
uf_path(parent, v) == IF parent[v] = v THEN {} ELSE {v} \cup uf_path(parent, parent[v])

(* find(v): the representative, and the structure after path compression. *)
uf_find(uf, v) ==
    LET root == uf_root(uf.parent, v)
        path == uf_path(uf.parent, v)
    IN [root |-> root,
        uf |-> [uf EXCEPT !.parent = [x \in DOMAIN uf.parent |->
                                        IF x \in path THEN root ELSE uf.parent[x]]]]

(* union(a, b): whether the sets were merged, and the structure after. *)
uf_union(uf, a, b) ==
    LET fa == uf_find(uf, a)
        fb == uf_find(fa.uf, b)
        ra == fa.root
        rb == fb.root
        u2 == fb.uf
    IN IF ra = rb THEN [merged |-> FALSE, uf |-> u2]
       ELSE IF u2.rank[ra] < u2.rank[rb]
       THEN [merged |-> TRUE, uf |-> [u2 EXCEPT !.parent[ra] = rb]]
       ELSE IF u2.rank[ra] > u2.rank[rb]
       THEN [merged |-> TRUE, uf |-> [u2 EXCEPT !.parent[rb] = ra]]
       ELSE [merged |-> TRUE,
             uf |-> [u2 EXCEPT !.parent[rb] = ra, !.rank[ra] = @ + 1]]

(***************************************************************************)
(* greedy.py                                                               *)
(***************************************************************************)
(* Mutant: key=lambda e: e[0]. *)
greedy_sort_key_first(e) == e[1]

(* key=lambda e: e[1] on the pairs (u, v) of graph["edges"]. *)
greedy_sort_key(e) == e[2]

(* sorted(edges, key=...): Python's sort is stable. *)
RECURSIVE sorted(_)
sorted(es) ==
    IF es = <<>> THEN <<>>
    ELSE LET front == sorted(SubSeq(es, 1, Len(es) - 1))
             e == es[Len(es)]
             k == Cardinality({i \in DOMAIN front :
                                  greedy_sort_key(front[i]) <= greedy_sort_key(e)})
         IN SubSeq(front, 1, k) \o <<e>> \o SubSeq(front, k + 1, Len(front))

(* Mutant: the degree of v is not tested. *)
greedy_accepts_u_only(uf, degree, bounds, u, v) ==
    /\ uf_find(uf, u).root # uf_find(uf_find(uf, u).uf, v).root
    /\ degree[u] < bounds[u]

(* The test of greedy.py:46-47 on the scanned edge (u, v). *)
greedy_accepts(uf, degree, bounds, u, v) ==
    /\ uf_find(uf, u).root # uf_find(uf_find(uf, u).uf, v).root
    /\ degree[u] < bounds[u]
    /\ degree[v] < bounds[v]

(* One iteration of the for loop of greedy.py:45-51 on sorted_edges[gs.pos]. *)
greedy_step(sorted_edges, bounds, gs) ==
    LET u == sorted_edges[gs.pos][1]
        v == sorted_edges[gs.pos][2]
        found == uf_find(uf_find(gs.uf, u).uf, v).uf
    IN IF greedy_accepts(gs.uf, gs.degree, bounds, u, v)
       THEN [pos |-> gs.pos + 1,
             tree |-> Append(gs.tree, <<u, v>>),
             uf |-> uf_union(found, u, v).uf,
             degree |-> [gs.degree EXCEPT ![u] = @ + 1, ![v] = @ + 1]]
       ELSE [gs EXCEPT !.pos = @ + 1, !.uf = found]

(* Mutant: the break is left out. *)
greedy_break_never(tree, vs) == FALSE

(* The break of greedy.py:53-54. *)
greedy_break(tree, vs) == Len(tree) = Cardinality(vs) - 1

greedy_init(vs) ==
    [pos |-> 1, tree |-> <<>>, uf |-> UnionFind(vs), degree |-> [x \in vs |-> 0]]

(* Whether the for loop has ended: exhausted, or left by the break. *)
greedy_done(sorted_edges, vs, gs) ==
    \/ gs.pos > Len(sorted_edges)
    \/ gs.pos > 1 /\ greedy_break(gs.tree, vs)

RECURSIVE greedy_loop(_, _, _, _)
greedy_loop(sorted_edges, vs, bounds, gs) ==
    IF greedy_done(sorted_edges, vs, gs) THEN gs
    ELSE greedy_loop(sorted_edges, vs, bounds, greedy_step(sorted_edges, bounds, gs))

(* greedy_dc_mst(graph, degree_bounds): the returned (tree, cost). *)
greedy_dc_mst(graph, bounds) ==
    LET tree == greedy_loop(sorted(graph.edges), graph.vertices, bounds,
                            greedy_init(graph.vertices)).tree
    IN [tree |-> tree, cost |-> total_cost(graph, tree)]

(***************************************************************************)
(* The names local_search.py:13-17 imports from src.utils.graph.           *)
(* build_adjacency and respects_degree_constraints are the ones of         *)
(* utils/graph.py, written for edges that are pairs (u, v): their loops    *)
(* `for u, v in edges` raise ValueError on an edge of another length, and  *)
(* local_search.py hands them triples (u, v, weight).  utils/graph.py      *)
(* defines no tree_cost; tree_cost of brute_force.py (the sum of the       *)
(* weights of a list of triples) stands for the missing name.              *)
(***************************************************************************)
(* build_adjacency (utils/graph.py:57-66). *)
build_adjacency(vs, es) ==
    IF \E i \in DOMAIN es : Len(es[i]) # 2
    THEN [raised |-> TRUE, adj |-> [x \in vs |-> {}]]
    ELSE [raised |-> FALSE,
          adj |-> [x \in vs |-> {es[i][2] : i \in {k \in DOMAIN es : es[k][1] = x}}
                                \cup {es[i][1] : i \in {k \in DOMAIN es : es[k][2] = x}}]]

(* respects_degree_constraints (utils/graph.py:39-54) on a list, from its  *)
(* i-th edge on, with the running degree count.                            *)
RECURSIVE ls_degree_scan(_, _, _, _)
ls_degree_scan(tree_edges, bounds, i, degree) ==
    IF i > Len(tree_edges) THEN [raised |-> FALSE, ok |-> TRUE]
    ELSE IF Len(tree_edges[i]) # 2 THEN [raised |-> TRUE, ok |-> FALSE]
    ELSE LET u == tree_edges[i][1]
             v == tree_edges[i][2]
             du == [degree EXCEPT ![u] = @ + 1]
             dv == [du EXCEPT ![v] = @ + 1]
         IN IF dv[u] > bounds[u] \/ dv[v] > bounds[v]
            THEN [raised |-> FALSE, ok |-> FALSE]
            ELSE ls_degree_scan(tree_edges, bounds, i + 1, dv)

ls_respects_degree_constraints(tree, bounds) ==
    ls_degree_scan(tree, bounds, 1, [x \in DOMAIN bounds |-> 0])

(***************************************************************************)
(* local_search.py                                                         *)
(***************************************************************************)
RECURSIVE ls_bfs(_, _, _, _)
ls_bfs(adj, queue, visited, comp) ==
    IF queue = <<>> THEN [visited |-> visited, comp |-> comp]
    ELSE LET current == Head(queue)
         IN IF current \notin visited
            THEN ls_bfs(adj,
                        Tail(queue) \o SetToSeq(adj[current] \ (visited \cup {current})),
                        visited \cup {current}, comp \cup {current})
            ELSE ls_bfs(adj, Tail(queue), visited, comp)

RECURSIVE ls_components(_, _, _, _)
ls_components(vs, adj, visited, components) ==
    IF vs \subseteq visited THEN components
    ELSE LET start == Min(vs \ visited)
             r == ls_bfs(adj, <<start>>, visited, {})
         IN ls_components(vs, adj, r.visited, Append(components, r.comp))

(* connected_components_after_removal: the call of build_adjacency at      *)
(* local_search.py:31 raises when an edge remains.                         *)
connected_components_after_removal(vs, tree, removed_edge) ==
    LET remaining_edges == SelectSeq(tree, LAMBDA e : e # removed_edge)
        built == build_adjacency(vs, remaining_edges)
    IN IF built.raised THEN [raised |-> TRUE, components |-> <<>>]
       ELSE [raised |-> FALSE, components |-> ls_components(vs, built.adj, {}, <<>>)]

(* list.remove(x): drops the first occurrence. *)
ListRemove(s, x) ==
    LET i == Min({k \in DOMAIN s : s[k] = x}) IN RemoveAt(s, i)

(* The comparison of local_search.py:105. *)
ls_improves(candidate_cost, current_cost) == candidate_cost < current_cost

(* The edge test of local_search.py:92-94: crossing, and not in the tree. *)
ls_is_candidate(e, comp_a, comp_b, current_tree) ==
    /\ \/ e[1] \in comp_a /\ e[2] \in comp_b
       \/ e[1] \in comp_b /\ e[2] \in comp_a
    /\ ~(e \in Range(current_tree) \/ <<e[2], e[1], e[3]>> \in Range(current_tree))

(* The result of a pass that commits nothing; built: the candidate trees   *)
(* it has built (local_search.py:96-98).                                   *)
ls_result(raised, current_tree, current_cost, built) ==
    [raised |-> raised, improved |-> FALSE, tree |-> current_tree,
     cost |-> current_cost, built |-> built]

(* The inner for loop (local_search.py:91-109) from edges[j] on. *)
RECURSIVE ls_inner(_, _, _, _, _, _, _, _, _)
ls_inner(es, j, edge_in, comp_a, comp_b, current_tree, current_cost, bounds, built) ==
    IF j > Len(es) THEN ls_result(FALSE, current_tree, current_cost, built)
    ELSE IF ~ls_is_candidate(es[j], comp_a, comp_b, current_tree)
    THEN ls_inner(es, j + 1, edge_in, comp_a, comp_b, current_tree, current_cost,
                  bounds, built)
    ELSE LET candidate_tree == Append(ListRemove(current_tree, edge_in), es[j])
             feasible == ls_respects_degree_constraints(candidate_tree, bounds)
             built2 == built \cup {candidate_tree}
         IN IF feasible.raised
            THEN ls_result(TRUE, current_tree, current_cost, built2)
            ELSE IF ~feasible.ok
            THEN ls_inner(es, j + 1, edge_in, comp_a, comp_b,
                          current_tree, current_cost, bounds, built2)
            ELSE IF ls_improves(tree_cost(candidate_tree), current_cost)
            THEN [raised |-> FALSE, improved |-> TRUE, tree |-> candidate_tree,
                  cost |-> tree_cost(candidate_tree), built |-> built2]
            ELSE ls_inner(es, j + 1, edge_in, comp_a, comp_b,
                          current_tree, current_cost, bounds, built2)

(* The for loop over list(current_tree) (local_search.py:81-115) from i on. *)
RECURSIVE ls_outer(_, _, _, _, _, _, _)
ls_outer(vs, es, i, current_tree, current_cost, bounds, built) ==
    IF i > Len(current_tree)
    THEN ls_result(FALSE, current_tree, current_cost, built)
    ELSE LET split == connected_components_after_removal(vs, current_tree,
                                                         current_tree[i])
             components == split.components
         IN IF split.raised
            THEN ls_result(TRUE, current_tree, current_cost, built)
            ELSE IF Len(components) # 2
            THEN ls_outer(vs, es, i + 1, current_tree, current_cost, bounds, built)
            ELSE LET r == ls_inner(es, 1, current_tree[i], components[1], components[2],
                                   current_tree, current_cost, bounds, built)
                 IN IF r.raised \/ r.improved THEN r
                    ELSE ls_outer(vs, es, i + 1, current_tree, current_cost, bounds,
                                  r.built)

(* One pass of the while loop: the body of local_search.py:79-115. *)
ls_pass(vs, es, current_tree, current_cost, bounds) ==
    ls_outer(vs, es, 1, current_tree, current_cost, bounds, {})

(* The loop condition of local_search.py:78 after a pass. *)
ls_continue(improved) == improved

(* The while loop of local_search.py:78-115 from a pass on; swaps: the     *)
(* improvements committed so far.                                          *)
RECURSIVE ls_loop(_, _, _, _, _, _)
ls_loop(vs, es, current_tree, current_cost, bounds, swaps) ==
    LET r == ls_pass(vs, es, current_tree, current_cost, bounds)
    IN IF r.raised THEN [raised |-> TRUE, tree |-> <<>>, swaps |-> swaps]
       ELSE IF ls_continue(r.improved)
       THEN ls_loop(vs, es, r.tree, r.cost, bounds, swaps + 1)
       ELSE [raised |-> FALSE, tree |-> r.tree, swaps |-> swaps]

(* local_search_dc_mst(vertices, edges, initial_tree, degree_bounds): the  *)
(* tree returned, or the exception.                                        *)
local_search_dc_mst(vs, es, initial_tree, bounds) ==
    ls_loop(vs, es, initial_tree, tree_cost(initial_tree), bounds, 0)

(* Mutant: no copy is made, the name is bound to the object itself. *)
copy_of_none(is_seed) == is_seed

(* Whether a copy of an object is the caller's seed object: a slice copy   *)
(* (local_search.py:74, 96) and a deepcopy (tabu_search.py:22,             *)
(* simulated_annealing.py:35) give a new object.                           *)
copy_of(is_seed) == FALSE

(***************************************************************************)
(* utils/graph.py: degree check, components and neighbourhoods over sets   *)
(* of pairs.  A Python set is iterated in an order the language leaves     *)
(* open; what is computed here does not depend on it.                      *)
(***************************************************************************)
degree_in(tree_edges, x) ==
    Cardinality({e \in tree_edges : e[1] = x}) + Cardinality({e \in tree_edges : e[2] = x})

(* Mutant: only the first endpoint of an edge is tested. *)
respects_degree_constraints_u_only(tree_edges, bounds) ==
    \A e \in tree_edges : ~(degree_in(tree_edges, e[1]) > bounds[e[1]])

(* respects_degree_constraints: the running count of a vertex exceeds its  *)
(* bound at some edge iff its final count does.                            *)
respects_degree_constraints(tree_edges, bounds) ==
    \A e \in tree_edges :
        /\ ~(degree_in(tree_edges, e[1]) > bounds[e[1]])
        /\ ~(degree_in(tree_edges, e[2]) > bounds[e[2]])

RECURSIVE cc_dfs(_, _, _, _)
cc_dfs(adj, stack, visited, comp) ==
    IF stack = <<>> THEN [visited |-> visited, comp |-> comp]
    ELSE LET x == stack[Len(stack)]
             fresh == adj[x] \ visited
         IN cc_dfs(adj, SubSeq(stack, 1, Len(stack) - 1) \o SetToSeq(fresh),
                   visited \cup fresh, comp \cup {x})

RECURSIVE cc_loop(_, _, _, _)
cc_loop(vs, adj, visited, components) ==
    IF vs \subseteq visited THEN components
    ELSE LET v == Min(vs \ visited)
             r == cc_dfs(adj, <<v>>, visited \cup {v}, {})
         IN cc_loop(vs, adj, r.visited, Append(components, r.comp))

connected_components(vs, es) ==
    LET adj == [x \in vs |-> {e[2] : e \in {d \in es : d[1] = x}}
                             \cup {e[1] : e \in {d \in es : d[2] = x}}]
    IN cc_loop(vs, adj, {}, <<>>)

(* Mutant: an or for the second and. *)
crosses_loose(e, comp_a, comp_b) ==
    \/ e[1] \in comp_a /\ e[2] \in comp_b
    \/ e[1] \in comp_b \/ e[2] \in comp_a

(* The crossing test of graph.py:137-139 and 170-171. *)
crosses(e, comp_a, comp_b) ==
    \/ e[1] \in comp_a /\ e[2] \in comp_b
    \/ e[1] \in comp_b /\ e[2] \in comp_a

(* candidate_edges of generate_neighbor for a removed edge; {} when the    *)
(* removal does not leave two components.                                  *)
candidate_edges(graph, tree_edges, removed_edge) ==
    LET components == connected_components(graph.vertices, tree_edges \ {removed_edge})
    IN IF Len(components) # 2 THEN {}
       ELSE {e \in Range(graph.edges) : crosses(e, components[1], components[2])}

(* Everything generate_neighbor_with_move yields: (new_tree, move). *)
generate_neighbor_with_move(graph, tree_edges) ==
    UNION {{[new_tree |-> (tree_edges \ {removed_edge}) \cup {edge},
             move |-> <<removed_edge, edge>>] :
                edge \in candidate_edges(graph, tree_edges, removed_edge)} :
           removed_edge \in tree_edges}

(* Every value generate_neighbor can return for the random choices: the    *)
(* new trees, and None when a removal leaves no candidate.                 *)
generate_neighbor(graph, tree_edges) ==
    [trees |-> UNION {{(tree_edges \ {removed_edge}) \cup {added_edge} :
                          added_edge \in candidate_edges(graph, tree_edges, removed_edge)} :
                      removed_edge \in tree_edges},
     none |-> \E removed_edge \in tree_edges :
                  candidate_edges(graph, tree_edges, removed_edge) = {}]

(***************************************************************************)
(* tabu_search.py                                                          *)
(***************************************************************************)
(* Mutant: a deque without maxlen. *)
deque_append_unbounded(dq, x, maxlen) == Append(dq, x)

(* Mutant: a full deque refuses the new entry. *)
deque_append_keeps_oldest(dq, x, maxlen) ==
    IF Len(dq) >= maxlen THEN dq ELSE Append(dq, x)

(* deque(maxlen=...).append *)
deque_append(dq, x, maxlen) ==
    IF maxlen = 0 THEN dq
    ELSE IF Len(dq) = maxlen THEN Append(Tail(dq), x)
    ELSE Append(dq, x)

(* Mutant: the tabu list is not consulted. *)
tabu_candidates_unfiltered(graph, bounds, current_solution, tabu_list) ==
    {nm \in generate_neighbor_with_move(graph, current_solution) :
        respects_degree_constraints(nm.new_tree, bounds)}

(* The moves that survive the two filters of tabu_search.py:36-40. *)
tabu_candidates(graph, bounds, current_solution, tabu_list) ==
    {nm \in generate_neighbor_with_move(graph, current_solution) :
        /\ nm.move \notin Range(tabu_list)
        /\ respects_degree_constraints(nm.new_tree, bounds)}

(* Mutant: the scan keeps whatever candidate it saw last. *)
tabu_last_candidates(graph, cands) == cands

(* What the scan of tabu_search.py:35-47 can leave in best_candidate: a    *)
(* candidate no other candidate beats (the first such in the iteration     *)
(* order of the sets).                                                     *)
tabu_best_candidates(graph, cands) ==
    {c \in cands : \A d \in cands :
        ~(total_cost_set(graph, d.new_tree) < total_cost_set(graph, c.new_tree))}

(* Mutant: the best-ever solution follows the current one. *)
improves_best_always(cost, best) == TRUE

(* The best-tracking test of tabu_search.py:56 and                         *)
(* simulated_annealing.py:69.                                              *)
improves_best(cost, best) == cost < best

(* tabu_search as a function: every outcome of a call for the orders in    *)
(* which the sets can be iterated, from the state st with `left`           *)
(* iterations of the for loop to go.  An outcome is the value returned and *)
(* whether the loop was left by the break of tabu_search.py:49-50.         *)
RECURSIVE tabu_runs(_, _, _, _, _)
tabu_runs(g, bounds, st, tenure, left) ==
    IF left = 0
    THEN {[ret |-> <<st.best_solution, st.best_cost>>, stuck |-> FALSE]}
    ELSE LET cands == tabu_candidates(g, bounds, st.current_solution, st.tabu_list)
         IN IF cands = {}
            THEN {[ret |-> <<st.best_solution, st.best_cost>>, stuck |-> TRUE]}
            ELSE UNION {
                   LET cost == total_cost_set(g, c.new_tree)
                       new_best == improves_best(cost, st.best_cost)
                   IN tabu_runs(g, bounds,
                        [current_solution |-> c.new_tree,
                         best_solution |-> IF new_best THEN c.new_tree ELSE st.best_solution,
                         best_cost |-> IF new_best THEN cost ELSE st.best_cost,
                         tabu_list |-> deque_append(st.tabu_list, c.move, tenure)],
                        tenure, left - 1) :
                   c \in tabu_best_candidates(g, cands)}

tabu_search(g, bounds, seed, tenure, max_it) ==
    tabu_runs(g, bounds,
              [current_solution |-> Range(seed), best_solution |-> Range(seed),
               best_cost |-> total_cost(g, seed), tabu_list |-> <<>>],
              tenure, max_it)

(***************************************************************************)
(* simulated_annealing.py                                                  *)
(***************************************************************************)
(* respects_degree_constraints_v2 is imported from utils.graph, which does *)
(* not define it; after section 4.2 of the specification.                  *)
respects_degree_constraints_v2(tree_edges, bounds) ==
    \A x \in DOMAIN bounds : degree_in(tree_edges, x) <= bounds[x]

(* Whether the Metropolis test of simulated_annealing.py:60-67 can accept  *)
(* (TRUE in the set) and can reject (FALSE in the set): exp(-0/t) = 1.0 is *)
(* above every draw of random() in [0, 1).                                 *)
sa_acceptance(delta) ==
    IF delta < 0 THEN {TRUE}
    ELSE IF delta = 0 THEN {TRUE}
    ELSE {TRUE, FALSE}

(***************************************************************************)
(* Spanning trees and feasibility, stated on edge sets without the         *)
(* solvers' helpers: what the seeds are drawn from and what the solvers'   *)
(* results are measured against.                                           *)
(***************************************************************************)
Ends(E) == {{e[1], e[2]} : e \in E}

RECURSIVE Closure(_, _)
Closure(S, E) ==
    LET T == S \cup {y \in UNION Ends(E) : \E x \in S : {x, y} \in Ends(E)}
    IN IF T = S THEN S ELSE Closure(T, E)

Connected(vs, E) == vs = {} \/ \E x \in vs : Closure({x}, E) = vs

Acyclic(E) == \A e \in E : e[2] \notin Closure({e[1]}, E \ {e})

IsSpanningTree(vs, E) ==
    /\ Cardinality(E) = Cardinality(vs) - 1
    /\ Acyclic(E)
    /\ Connected(vs, E)

DegreeOf(E, x) == Cardinality({e \in E : x \in {e[1], e[2]}})

WithinBounds(E, bounds) == \A x \in DOMAIN bounds : DegreeOf(E, x) <= bounds[x]

PairSet(s) == {PairOf(s[i]) : i \in DOMAIN s}

CostOf(es, E) == SumSeq([i \in DOMAIN es |-> IF PairOf(es[i]) \in E THEN es[i][3] ELSE 0])

(* The degree-feasible spanning trees of an instance, as sets of pairs. *)
FeasibleTrees(vs, es, bounds) ==
    {E \in SUBSET PairSet(es) : IsSpanningTree(vs, E) /\ WithinBounds(E, bounds)}

(* The sub-list of es with the pairs of E, in the order of es. *)
SubList(es, E) == SelectSeq(es, LAMBDA e : PairOf(e) \in E)

(***************************************************************************)
(* State.                                                                  *)
(***************************************************************************)
VARIABLES
    vertices, edges, degree_bounds,   \* the instance (edges as triples)
    alg, pc,                          \* the solver entered, and where it is
    sorted_edges, pos, tree, degree, uf,          \* greedy_dc_mst
    initial_solution,                 \* the seed of the optimizer entered
    aliased,                          \* whether the tree it holds as current is
                                      \* the very object the caller passed
    current_tree, improved,           \* local_search_dc_mst
    swaps,                            \* the swaps committed so far
    current_solution, current_cost, best_solution, best_cost,
    tabu_list, tabu_tenure, max_iterations, iteration, temperature,
    ret                               \* the value returned

instVars == <<vertices, edges, degree_bounds>>
greedyVars == <<sorted_edges, pos, tree, degree, uf>>
lsVars == <<current_tree, improved, swaps>>
metaVars == <<current_solution, best_solution, best_cost,
              tabu_list, tabu_tenure, max_iterations, iteration, temperature>>
vars == <<instVars, alg, pc, greedyVars, initial_solution, aliased, lsVars, metaVars,
          current_cost, ret>>

graph == Graph(vertices, edges)

(***************************************************************************)
(* The arguments a caller hands the solvers.  The instances have three     *)
(* vertices: every graph generate_graph can draw on them, every weight in  *)
(* 1 .. MaxWeight, with every bound map into 1 .. MaxDegreeBound (the      *)
(* solvers take any bound map, not only the uniform ones generate_graph    *)
(* gives, and any edge list, not only those generate_feasible_instance     *)
(* lets through); the scenario graph; the graph on one vertex (no edge;    *)
(* its spanning tree is the empty tree); the triangle with a pendant       *)
(* vertex; the detour graph.                                               *)
(***************************************************************************)
Instances ==
    {[vertices |-> Vertices, edges |-> generate_graph(w, 1, {}).edges,
      degree_bounds |-> b] :
        w \in [1 .. Len(PairSeq) -> 0 .. MaxWeight],
        b \in [Vertices -> 1 .. MaxDegreeBound]}
    \cup {[vertices |-> ScenarioVertices, edges |-> ScenarioEdges, degree_bounds |-> b] :
            b \in [ScenarioVertices -> 1 .. MaxDegreeBound] \cup {ScenarioBounds}}
    \cup {[vertices |-> {0}, edges |-> <<>>, degree_bounds |-> b] :
            b \in [{0} -> 1 .. MaxDegreeBound]}
    \cup {[vertices |-> PendantVertices, edges |-> PendantEdges,
            degree_bounds |-> PendantBounds]}
    \cup {[vertices |-> DetourVertices, edges |-> DetourEdges,
            degree_bounds |-> DetourBounds]}

Init ==
    /\ \E inst \in Instances :
        /\ vertices = inst.vertices
        /\ edges = inst.edges
        /\ degree_bounds = inst.degree_bounds
    /\ alg = "none"
    /\ pc = "idle"
    /\ sorted_edges = <<>>
    /\ pos = 0
    /\ tree = <<>>
    /\ degree = <<>>
    /\ uf = UnionFind({})
    /\ initial_solution = <<>>
    /\ aliased = FALSE
    /\ current_tree = <<>>
    /\ improved = FALSE
    /\ swaps = 0
    /\ current_solution = {}
    /\ current_cost = 0
    /\ best_solution = {}
    /\ best_cost = 0
    /\ tabu_list = <<>>
    /\ tabu_tenure = 0
    /\ max_iterations = 0
    /\ iteration = 0
    /\ temperature = <<0, 1>>
    /\ ret = <<>>

(***************************************************************************)
(* run_single_experiment(config): the call of generate_feasible_instance   *)
(* (run_experiment.py:54-60) passes the keyword seed, so it raises         *)
(* TypeError whatever graph would have been drawn, and no statement after  *)
(* it (the greedy seed of line 72, the loop over ALGORITHMS of line 76) is *)
(* reached.  The solvers below are therefore called as the functions they  *)
(* are, each with the arguments of its own signature.                      *)
(***************************************************************************)
RunSingleExperiment ==
    /\ pc = "idle"
    /\ \E w \in [1 .. Len(PairSeq) -> 0 .. MaxWeight], degree_bound \in 1 .. MaxDegreeBound :
          LET r == generate_feasible_instance(<<w>>, degree_bound, {"seed"})
          IN /\ r.raised
             /\ pc' = "raised"
    /\ alg' = "run_single_experiment"
    /\ UNCHANGED <<instVars, greedyVars, initial_solution, aliased, lsVars, metaVars,
                   current_cost, ret>>

(***************************************************************************)
(* brute_force_dc_mst: one call.                                           *)
(***************************************************************************)
BruteForce ==
    /\ pc = "idle"
    /\ LET r == brute_force_dc_mst(vertices, edges, degree_bounds)
       IN /\ pc' = IF r.raised THEN "raised" ELSE "returned"
          /\ ret' = r.tree
    /\ alg' = "brute_force"
    /\ UNCHANGED <<instVars, greedyVars, initial_solution, aliased, lsVars, metaVars,
                   current_cost>>

(***************************************************************************)
(* greedy_dc_mst: the code before the loop, then one scanned edge a step;  *)
(* the step that ends the loop returns (tree, cost).                       *)
(***************************************************************************)
GreedyStart ==
    /\ pc = "idle"
    /\ alg' = "greedy"
    /\ LET gs == greedy_init(graph.vertices)
           se == sorted(graph.edges)
       IN /\ sorted_edges' = se
          /\ pos' = gs.pos
          /\ tree' = gs.tree
          /\ degree' = gs.degree
          /\ uf' = gs.uf
          /\ IF greedy_done(se, vertices, gs)
             THEN pc' = "returned" /\ ret' = <<gs.tree, total_cost(graph, gs.tree)>>
             ELSE pc' = "loop" /\ ret' = ret
    /\ UNCHANGED <<instVars, initial_solution, aliased, lsVars, metaVars, current_cost>>

GreedyScan ==
    /\ alg = "greedy"
    /\ pc = "loop"
    /\ LET gs == greedy_step(sorted_edges, degree_bounds,
                             [pos |-> pos, tree |-> tree, uf |-> uf, degree |-> degree])
       IN /\ pos' = gs.pos
          /\ tree' = gs.tree
          /\ degree' = gs.degree
          /\ uf' = gs.uf
          /\ IF greedy_done(sorted_edges, vertices, gs)
             THEN pc' = "returned" /\ ret' = <<gs.tree, total_cost(graph, gs.tree)>>
             ELSE pc' = "loop" /\ ret' = ret
    /\ UNCHANGED <<instVars, alg, sorted_edges, initial_solution, aliased, lsVars, metaVars,
                   current_cost>>

(***************************************************************************)
(* The initial_solution argument of the optimizers: the tree the greedy    *)
(* constructor returns for the instance, or any degree-feasible spanning   *)
(* tree of the graph, listed in edge-list order.                           *)
(***************************************************************************)
SeedsPairs ==
    {greedy_dc_mst(graph, degree_bounds).tree}
    \cup {[i \in DOMAIN SubList(edges, E) |-> PairOf(SubList(edges, E)[i])] :
            E \in FeasibleTrees(vertices, edges, degree_bounds)}

SeedsTriples ==
    {[i \in DOMAIN s |-> <<s[i][1], s[i][2], graph.weights[s[i]]>>] : s \in SeedsPairs}

(***************************************************************************)
(* local_search_dc_mst: the code before the loop, then one pass of the     *)
(* while loop a step; the pass that commits nothing returns current_tree.  *)
(***************************************************************************)
LSEnter(seed) ==
    /\ alg' = "local_search"
    /\ pc' = "loop"
    /\ initial_solution' = seed
    /\ aliased' = copy_of(TRUE)
    /\ current_tree' = seed
    /\ current_cost' = tree_cost(seed)
    /\ improved' = TRUE
    /\ UNCHANGED <<instVars, greedyVars, metaVars, ret>>

LSStart ==
    /\ pc = "idle"
    /\ swaps' = 0
    /\ \E seed \in SeedsTriples : LSEnter(seed)

(* What a pass writes outside its own names: candidate_tree.remove and     *)
(* candidate_tree.append (local_search.py:97-98) change the object         *)
(* candidate_tree is bound to, which changes the caller's seed when it is  *)
(* that object; current_tree is bound to the candidate on an improvement   *)
(* (local_search.py:106).                                                  *)
ls_writes(candidate_is_seed, r) ==
    /\ aliased' = IF r.improved THEN candidate_is_seed ELSE aliased
    /\ IF candidate_is_seed /\ r.built # {}
       THEN \E candidate_tree \in r.built : initial_solution' = candidate_tree
       ELSE initial_solution' = initial_solution

(* One pass; an exception raised in it ends the call without a result. *)
LSPass ==
    /\ alg = "local_search"
    /\ pc = "loop"
    /\ LET r == ls_pass(vertices, edges, current_tree, current_cost, degree_bounds)
       IN /\ current_tree' = r.tree
          /\ current_cost' = r.cost
          /\ improved' = r.improved
          /\ swaps' = IF r.improved THEN swaps + 1 ELSE swaps
          /\ ls_writes(copy_of(aliased), r)
          /\ IF r.raised
             THEN pc' = "raised" /\ ret' = ret
             ELSE IF ls_continue(r.improved)
             THEN pc' = "loop" /\ ret' = ret
             ELSE pc' = "returned" /\ ret' = r.tree
    /\ UNCHANGED <<instVars, alg, greedyVars, metaVars>>

(***************************************************************************)
(* tabu_search: the code before the loop, then one iteration a step; the   *)
(* step that leaves the loop returns (best_solution, best_cost).           *)
(***************************************************************************)
TabuStart ==
    /\ pc = "idle"
    /\ alg' = "tabu_search"
    /\ \E seed \in SeedsPairs, tenure \in 0 .. MaxTenure :
        /\ initial_solution' = seed
        /\ aliased' = copy_of(TRUE)
        /\ current_solution' = Range(seed)
        /\ best_solution' = Range(seed)
        /\ current_cost' = total_cost(graph, seed)
        /\ best_cost' = total_cost(graph, seed)
        /\ tabu_tenure' = tenure
        /\ tabu_list' = <<>>
        /\ max_iterations' = MaxIterations
        /\ iteration' = 0
        /\ IF MaxIterations = 0
           THEN pc' = "returned" /\ ret' = <<Range(seed), total_cost(graph, seed)>>
           ELSE pc' = "loop" /\ ret' = ret
    /\ UNCHANGED <<instVars, greedyVars, lsVars, temperature>>

(* Mutant: an aspiration criterion; a tabu move is let through when its    *)
(* tree costs less than best_cost.                                         *)
tabu_scan_with_aspiration ==
    {nm \in generate_neighbor_with_move(graph, current_solution) :
        /\ \/ nm.move \notin Range(tabu_list)
           \/ total_cost_set(graph, nm.new_tree) < best_cost
        /\ respects_degree_constraints(nm.new_tree, degree_bounds)}

(* What the scan of an iteration lets through (tabu_search.py:35-40), on   *)
(* the locals of the call.                                                 *)
tabu_scan == tabu_candidates(graph, degree_bounds, current_solution, tabu_list)

TabuIterate ==
    /\ alg = "tabu_search"
    /\ pc = "loop"
    /\ LET cands == tabu_scan
       IN IF cands = {}
          THEN /\ pc' = "returned"
               /\ ret' = <<best_solution, best_cost>>
               /\ UNCHANGED <<metaVars, current_cost, aliased>>
          ELSE \E c \in tabu_best_candidates(graph, cands) :
                LET cost == total_cost_set(graph, c.new_tree)
                    new_best == improves_best(cost, best_cost)
                IN /\ current_solution' = c.new_tree
                   /\ aliased' = FALSE
                   /\ current_cost' = cost
                   /\ tabu_list' = deque_append(tabu_list, c.move, tabu_tenure)
                   /\ best_solution' = IF new_best THEN c.new_tree ELSE best_solution
                   /\ best_cost' = IF new_best THEN cost ELSE best_cost
                   /\ iteration' = iteration + 1
                   /\ IF iteration + 1 < max_iterations
                      THEN pc' = "loop" /\ ret' = ret
                      ELSE pc' = "returned" /\ ret' = <<best_solution', best_cost'>>
                   /\ UNCHANGED <<tabu_tenure, max_iterations, temperature>>
    /\ UNCHANGED <<instVars, alg, greedyVars, initial_solution, lsVars>>

(***************************************************************************)
(* simulated_annealing: the code before the loop, then one iteration a     *)
(* step.  The temperature is the exact fraction <<numerator, denominator>>.*)
(***************************************************************************)
cool(t) == <<t[1] * CoolingNum, t[2] * CoolingDen>>

(* The loop condition of simulated_annealing.py:46. *)
sa_continue(t, it, max_it) == t[1] > MinTemperature * t[2] /\ it < max_it

SAStart ==
    /\ pc = "idle"
    /\ alg' = "simulated_annealing"
    /\ \E seed \in SeedsPairs, max_it \in 1 .. MaxIterations :
        /\ initial_solution' = seed
        /\ aliased' = copy_of(TRUE)
        /\ current_solution' = Range(seed)
        /\ best_solution' = Range(seed)
        /\ current_cost' = total_cost(graph, seed)
        /\ best_cost' = total_cost(graph, seed)
        /\ max_iterations' = max_it
        /\ iteration' = 0
        /\ temperature' = <<InitialTemperature, 1>>
        /\ IF sa_continue(<<InitialTemperature, 1>>, 0, max_it)
           THEN pc' = "loop" /\ ret' = ret
           ELSE pc' = "returned" /\ ret' = <<Range(seed), total_cost(graph, seed)>>
    /\ UNCHANGED <<instVars, greedyVars, lsVars, tabu_list, tabu_tenure>>

(* The end of an iteration: cooling, the counter, and the loop condition. *)
SANext(solution, cost, same_object) ==
    LET new_best == improves_best(cost, best_cost)
    IN /\ current_solution' = solution
       /\ aliased' = (same_object /\ aliased)
       /\ current_cost' = cost
       /\ best_solution' = IF new_best THEN solution ELSE best_solution
       /\ best_cost' = IF new_best THEN cost ELSE best_cost
       /\ temperature' = cool(temperature)
       /\ iteration' = iteration + 1
       /\ IF sa_continue(cool(temperature), iteration + 1, max_iterations)
          THEN pc' = "loop" /\ ret' = ret
          ELSE pc' = "returned" /\ ret' = <<best_solution', best_cost'>>

SAIterate ==
    /\ alg = "simulated_annealing"
    /\ pc = "loop"
    /\ IF current_solution = {}
       THEN \* random.choice of an empty tuple raises IndexError
            /\ pc' = "raised"
            /\ UNCHANGED <<current_solution, current_cost, best_solution, best_cost,
                           temperature, iteration, ret, aliased>>
       ELSE LET gn == generate_neighbor(graph, current_solution)
            IN \/ /\ gn.none
                  /\ SANext(current_solution, current_cost, TRUE)
               \/ \E neighbor \in gn.trees :
                     IF ~respects_degree_constraints_v2(neighbor, degree_bounds)
                     THEN SANext(current_solution, current_cost, TRUE)
                     ELSE LET neighbor_cost == total_cost_set(graph, neighbor)
                          IN \E accept \in sa_acceptance(neighbor_cost - current_cost) :
                                IF accept THEN SANext(neighbor, neighbor_cost, FALSE)
                                ELSE SANext(current_solution, current_cost, TRUE)
    /\ UNCHANGED <<instVars, alg, greedyVars, initial_solution, lsVars,
                   tabu_list, tabu_tenure, max_iterations>>

Next ==
    \/ RunSingleExperiment
    \/ BruteForce
    \/ GreedyStart
    \/ GreedyScan
    \/ LSStart
    \/ LSPass
    \/ TabuStart
    \/ TabuIterate
    \/ SAStart
    \/ SAIterate

Spec == Init /\ [][Next]_vars

(* The interpreter runs a loop it has entered.  This is weak fairness of   *)
(* the two iteration actions, written out: SAIterate or TabuIterate is     *)
(* enabled exactly in the states of MetaLoop, and every step that leaves   *)
(* such a state is one of theirs.                                          *)
MetaLoop == alg \in {"simulated_annealing", "tabu_search"} /\ pc = "loop"

Fairness == []<>(~MetaLoop) \/ []<><<MetaLoop>>_vars

FairSpec == Spec /\ Fairness

(* The same for the while loop of local search. *)
LSLoop == alg = "local_search" /\ pc = "loop"

LSFairness == []<>(~LSLoop) \/ []<><<LSLoop>>_vars

FairSpecLS == Spec /\ LSFairness

(***************************************************************************)
(* Properties.                                                             *)
(***************************************************************************)
N == Cardinality(vertices)

Feasible == FeasibleTrees(vertices, edges, degree_bounds)

MinFeasibleCost == Min({CostOf(edges, E) : E \in Feasible})

(* A list of edges (pairs or triples) without repetition that is a         *)
(* spanning tree of the instance.                                          *)
ListIsSpanningTree(s) ==
    /\ Len(s) = N - 1
    /\ IsSpanningTree(vertices, PairSet(s))

Returned(a) == alg = a /\ pc = "returned"

Optimizers == {"local_search", "simulated_annealing", "tabu_search"}

(* The tree and the cost a solver has returned, as a set of pairs and the  *)
(* number it reports (the sum of its triples' weights where it reports     *)
(* none).                                                                  *)
ReturnedTree ==
    CASE alg \in {"brute_force", "local_search"} -> PairSet(ret)
      [] alg = "greedy" -> Range(ret[1])
      [] OTHER -> ret[1]

ReturnedCost ==
    CASE alg \in {"brute_force", "local_search"} -> tree_cost(ret)
      [] OTHER -> ret[2]

SeedTree == PairSet(initial_solution)

(* C1: whenever a degree-feasible spanning tree exists, brute_force_dc_mst *)
(* returns n-1 edges of the graph that form a spanning tree, respect every *)
(* degree bound, and weigh the minimum over all degree-feasible spanning   *)
(* trees.                                                                  *)
C1_ExactReturnsOptimum ==
    (alg = "brute_force" /\ Feasible # {}) =>
        /\ pc = "returned"
        /\ Range(ret) \subseteq Range(edges)
        /\ ListIsSpanningTree(ret)
        /\ WithinBounds(PairSet(ret), degree_bounds)
        /\ CostOf(edges, PairSet(ret)) = MinFeasibleCost

(* The exact solver has returned where a dearer feasible tree exists and a *)
(* cheaper spanning tree breaks a degree bound.                            *)
C1_Witness ==
    /\ Returned("brute_force")
    /\ \E E \in Feasible : CostOf(edges, E) > CostOf(edges, PairSet(ret))
    /\ \E E \in SUBSET PairSet(edges) :
        /\ IsSpanningTree(vertices, E)
        /\ ~WithinBounds(E, degree_bounds)
        /\ CostOf(edges, E) < CostOf(edges, PairSet(ret))

(* C2: brute_force_dc_mst raises if and only if the graph has no spanning  *)
(* tree within the degree bounds; otherwise it returns.                    *)
C2_RaisesIffInfeasible ==
    alg = "brute_force" =>
        /\ pc \in {"raised", "returned"}
        /\ pc = "raised" <=> Feasible = {}

(* The exact solver has raised on a connected graph: only the bounds rule  *)
(* its spanning trees out.                                                 *)
C2_Witness ==
    /\ alg = "brute_force"
    /\ pc = "raised"
    /\ \E E \in SUBSET PairSet(edges) : IsSpanningTree(vertices, E)

(* An instance the supplier's contract accepts (generator.py:86): at least *)
(* n - 1 edges.                                                            *)
Accepted == Len(edges) >= N - 1

(* C3 as stated: on every accepted graph, every tree a solver returns has  *)
(* |V| - 1 edges, is acyclic and is connected.                             *)
C3_EveryReturnedTreeSpans ==
    (Accepted /\ pc = "returned") =>
        /\ Cardinality(ReturnedTree) = N - 1
        /\ Acyclic(ReturnedTree)
        /\ Connected(vertices, ReturnedTree)

(* C3, amended: the exact solver's tree is a spanning tree; the greedy     *)
(* tree is acyclic with at most |V| - 1 edges and is a spanning tree when  *)
(* it has |V| - 1 edges; local search, simulated annealing and tabu search *)
(* return a spanning tree whenever their seed is one.                      *)
C3_ReturnedTreeSpansWhenComplete ==
    pc = "returned" =>
        /\ alg = "brute_force" => ListIsSpanningTree(ret)
        /\ alg = "greedy" =>
            /\ Len(ret[1]) = Cardinality(ReturnedTree)
            /\ Len(ret[1]) <= N - 1
            /\ Acyclic(ReturnedTree)
            /\ Len(ret[1]) = N - 1 => IsSpanningTree(vertices, ReturnedTree)
        /\ (alg = "local_search" /\ ListIsSpanningTree(initial_solution)) =>
            ListIsSpanningTree(ret)
        /\ (alg \in {"simulated_annealing", "tabu_search"}
                /\ ListIsSpanningTree(initial_solution)) =>
            IsSpanningTree(vertices, ReturnedTree)

(* Tabu search has returned a tree other than its spanning seed. *)
C3_Witness ==
    /\ Returned("tabu_search")
    /\ ListIsSpanningTree(initial_solution)
    /\ ReturnedTree # SeedTree

(* C4: the exact and the greedy tree respect the degree bounds; with a     *)
(* seed that respects them, so do current_tree of local search and         *)
(* current_solution and best_solution of simulated annealing and tabu      *)
(* search at every step, and the tree returned.                            *)
C4_DegreeBoundsRespected ==
    /\ Returned("brute_force") => WithinBounds(ReturnedTree, degree_bounds)
    /\ alg = "greedy" => WithinBounds(Range(tree), degree_bounds)
    /\ Returned("greedy") => WithinBounds(ReturnedTree, degree_bounds)
    /\ (alg \in Optimizers /\ WithinBounds(SeedTree, degree_bounds)) =>
        /\ alg = "local_search" => WithinBounds(PairSet(current_tree), degree_bounds)
        /\ alg # "local_search" =>
            /\ WithinBounds(current_solution, degree_bounds)
            /\ WithinBounds(best_solution, degree_bounds)
        /\ pc = "returned" => WithinBounds(ReturnedTree, degree_bounds)

(* Tabu search has left its seed where some neighbour of the seed breaks a *)
(* degree bound.                                                           *)
C4_Witness ==
    /\ alg = "tabu_search"
    /\ current_solution # SeedTree
    /\ WithinBounds(SeedTree, degree_bounds)
    /\ \E nm \in generate_neighbor_with_move(graph, SeedTree) :
            ~WithinBounds(nm.new_tree, degree_bounds)

(* What the exact solver gives on the instance of the current state. *)
Exact == brute_force_dc_mst(vertices, edges, degree_bounds)

ExactCost == tree_cost(Exact.tree)

(* C5 as stated: where the exact solver returns a tree, its cost is at     *)
(* most the cost every other solver returns on the instance.               *)
C5_ExactCostIsLowerBound ==
    (pc = "returned" /\ alg # "brute_force" /\ ~Exact.raised) =>
        ExactCost <= ReturnedCost

(* C5, amended: where the exact solver returns a tree, its cost is at most *)
(* the cost another solver returns whenever that solver's tree is a        *)
(* spanning tree within the degree bounds.                                 *)
C5_ExactCostBoundsFeasibleResults ==
    (pc = "returned" /\ alg # "brute_force" /\ ~Exact.raised
        /\ IsSpanningTree(vertices, ReturnedTree)
        /\ WithinBounds(ReturnedTree, degree_bounds)) =>
        ExactCost <= ReturnedCost

(* The greedy constructor has returned a feasible spanning tree dearer     *)
(* than the exact solver's.                                                *)
C5_Witness ==
    /\ Returned("greedy")
    /\ ~Exact.raised
    /\ IsSpanningTree(vertices, ReturnedTree)
    /\ WithinBounds(ReturnedTree, degree_bounds)
    /\ ExactCost < ReturnedCost

(* C6 as stated: where a degree-feasible spanning tree exists, the greedy  *)
(* constructor returns n - 1 edges that form one.                          *)
C6_GreedyCompleteWhenFeasible ==
    (Returned("greedy") /\ Feasible # {}) =>
        /\ Len(ret[1]) = N - 1
        /\ ReturnedTree \in Feasible

(* C6, amended: the greedy constructor returns at most n - 1 edges with    *)
(* the sum of their weights; n - 1 returned edges form a degree-feasible   *)
(* spanning tree, and on an instance without one it returns fewer.         *)
C6_GreedyFeasibleWhenComplete ==
    Returned("greedy") =>
        /\ Len(ret[1]) <= N - 1
        /\ Len(ret[1]) = N - 1 => ReturnedTree \in Feasible
        /\ Feasible = {} => Len(ret[1]) < N - 1
        /\ ReturnedTree \subseteq PairSet(edges)
        /\ ret[2] = CostOf(edges, ReturnedTree)

(* The greedy constructor has returned n - 1 edges on an instance where a  *)
(* spanning tree of the graph breaks a degree bound.                       *)
C6_Witness ==
    /\ Returned("greedy")
    /\ Len(ret[1]) = N - 1
    /\ \E E \in SUBSET PairSet(edges) :
            IsSpanningTree(vertices, E) /\ ~WithinBounds(E, degree_bounds)

(* Where the pair p stands in the edge list. *)
IndexIn(es, p) == CHOOSE k \in DOMAIN es : PairOf(es[k]) = p

(* C7: the greedy constructor scans the edges by non-decreasing weight,    *)
(* edges of equal weight in edge-list order.                               *)
C7_GreedyScansByWeight ==
    alg = "greedy" =>
        \A i, j \in DOMAIN sorted_edges : i < j =>
            \/ graph.weights[sorted_edges[i]] < graph.weights[sorted_edges[j]]
            \/ /\ graph.weights[sorted_edges[i]] = graph.weights[sorted_edges[j]]
               /\ IndexIn(edges, sorted_edges[i]) < IndexIn(edges, sorted_edges[j])

IsScenario ==
    /\ vertices = ScenarioVertices
    /\ edges = ScenarioEdges
    /\ degree_bounds = ScenarioBounds

ScenarioTree == {<<0, 1>>, <<1, 2>>, <<2, 3>>}

(* C8: on the scenario instance the exact solver returns the tree          *)
(* {(0,1),(1,2),(2,3)} of cost 3, and the greedy constructor returns the   *)
(* same tree and cost.                                                     *)
C8_ScenarioResult ==
    IsScenario =>
        /\ alg = "brute_force" =>
            /\ pc = "returned"
            /\ Len(ret) = 3
            /\ PairSet(ret) = ScenarioTree
            /\ tree_cost(ret) = 3
        /\ Returned("greedy") =>
            /\ Len(ret[1]) = 3
            /\ Range(ret[1]) = ScenarioTree
            /\ ret[2] = 3

(* The greedy constructor has returned on the scenario instance. *)
C8_Witness == IsScenario /\ Returned("greedy")

(* C9: local search never worsens its seed.  current_cost never exceeds    *)
(* the seed's cost, a pass either leaves current_tree and current_cost     *)
(* alone or commits a swap that strictly lowers current_cost, and the run  *)
(* ends with a returned tree that costs at most the seed.                  *)
C9_Inv ==
    alg = "local_search" =>
        /\ current_cost = tree_cost(current_tree)
        /\ current_cost <= tree_cost(initial_solution)
        /\ pc # "loop" =>
            /\ pc = "returned"
            /\ tree_cost(ret) <= tree_cost(initial_solution)

C9_Step ==
    (alg = "local_search" /\ alg' = "local_search") =>
        /\ current_cost' <= current_cost
        /\ current_tree' # current_tree <=> current_cost' < current_cost

C9_LocalSearchNeverWorsens == []C9_Inv /\ [][C9_Step]_vars

(* A seed the claims call feasible: a spanning tree within the bounds. *)
FeasibleSeed ==
    /\ ListIsSpanningTree(initial_solution)
    /\ WithinBounds(SeedTree, degree_bounds)

(* C10: for every feasible seed, local search run again on the tree it     *)
(* returned commits no swap and returns that tree, same edges in the same  *)
(* order.                                                                  *)
C10_LocalSearchIdempotent ==
    (alg = "local_search" /\ FeasibleSeed) =>
        LET first == local_search_dc_mst(vertices, edges, initial_solution,
                                         degree_bounds)
            second == local_search_dc_mst(vertices, edges, first.tree, degree_bounds)
        IN /\ ~first.raised
           /\ ~second.raised
           /\ second.swaps = 0
           /\ second.tree = first.tree

(* The steps of simulated annealing and tabu search: the entry, and one    *)
(* loop iteration.                                                         *)
Meta == {"simulated_annealing", "tabu_search"}

MetaEnters == alg = "none" /\ alg' \in Meta

MetaIterates == alg \in Meta /\ pc = "loop" /\ pc' # "raised" /\ iteration' = iteration + 1

C11_Inv ==
    alg \in Meta =>
        /\ best_cost = total_cost_set(graph, best_solution)
        /\ best_cost <= current_cost
        /\ best_cost <= total_cost(graph, initial_solution)
        /\ pc = "returned" =>
              /\ ret = <<best_solution, best_cost>>
              /\ ret[2] <= total_cost(graph, initial_solution)

C11_Step ==
    /\ MetaEnters => best_cost' = total_cost(graph, initial_solution')
                      /\ current_cost' = best_cost'
    /\ MetaIterates => best_cost' = Min({best_cost, current_cost'})

(* C11: simulated annealing and tabu search return the best-ever solution. *)
(* best_cost starts as the seed's cost and after every iteration is the    *)
(* minimum of its former value and the new current_cost, hence the minimum *)
(* of the seed's cost and every current_cost reached; it is the cost of    *)
(* best_solution and at most current_cost; the pair returned is            *)
(* (best_solution, best_cost), of cost at most the seed's.                 *)
C11_BestEverReturned == []C11_Inv /\ [][C11_Step]_vars

(* A run has returned a solution cheaper than its seed after its current   *)
(* solution had moved on to a dearer one.                                  *)
C11_Witness ==
    /\ alg \in Meta
    /\ pc = "returned"
    /\ ret[2] < total_cost(graph, initial_solution)
    /\ ret[2] < current_cost

SALoop == alg = "simulated_annealing" /\ pc = "loop"

(* What the claimed iteration of simulated annealing does to the counter,  *)
(* the temperature and the loop.                                           *)
SACountsAndCools ==
    /\ iteration' = iteration + 1
    /\ temperature' = cool(temperature)
    /\ pc' = IF temperature'[1] > MinTemperature * temperature'[2]
                /\ iteration' # max_iterations
             THEN "loop" ELSE "returned"

(* C12: simulated annealing always terminates.  Every loop iteration adds  *)
(* one to the iteration counter and multiplies the temperature by the      *)
(* cooling rate once, whatever its outcome, and the loop is left as soon   *)
(* as temperature <= min_temperature or iteration = max_iterations; a run  *)
(* that was entered returns.                                               *)
C12_AnnealingCoolsAndTerminates ==
    /\ [][SALoop => SACountsAndCools]_vars
    /\ [](alg = "simulated_annealing" => iteration <= max_iterations)
    /\ (alg = "simulated_annealing") ~> (pc = "returned")

(* The same for the runs whose seed has an edge. *)
C12_TerminatesOnNonEmptySeed ==
    /\ [][SALoop /\ initial_solution # <<>> => SACountsAndCools]_vars
    /\ (alg = "simulated_annealing" /\ initial_solution # <<>>) ~> (pc = "returned")

(* Both ways out of the loop: the temperature, and the iteration cap. *)
C12_LeftByTemperature ==
    /\ Returned("simulated_annealing")
    /\ iteration < max_iterations
    /\ iteration > 0

C12_LeftByCap ==
    /\ Returned("simulated_annealing")
    /\ iteration = max_iterations
    /\ temperature[1] > MinTemperature * temperature[2]

TabuLoop == alg = "tabu_search" /\ pc = "loop"

(* The degree-feasible trees of the full swap neighbourhood of a solution. *)
FeasibleNeighbours(solution) ==
    {nm \in generate_neighbor_with_move(graph, solution) :
        WithinBounds(nm.new_tree, degree_bounds)}

C13_Step ==
    TabuLoop /\ tabu_tenure = 0 =>
        LET F == FeasibleNeighbours(current_solution)
        IN IF F = {}
           THEN pc' = "returned" /\ iteration' = iteration
           ELSE /\ iteration' = iteration + 1
                /\ current_solution' \in {nm.new_tree : nm \in F}
                /\ current_cost' = total_cost_set(graph, current_solution')
                /\ \A nm \in F : current_cost' <= total_cost_set(graph, nm.new_tree)
                /\ pc' = IF iteration' < max_iterations THEN "loop" ELSE "returned"

(* C13: with tabu_tenure = 0 the tabu list stays empty, so no move is ever *)
(* forbidden: each iteration commits a lowest-cost degree-feasible         *)
(* neighbour of the full swap neighbourhood (and stops where there is      *)
(* none); the run makes at most max_iterations iterations and returns.     *)
C13_TenureZeroBounded ==
    /\ [](alg = "tabu_search" /\ tabu_tenure = 0 =>
            tabu_list = <<>> /\ iteration <= max_iterations)
    /\ [][C13_Step]_vars
    /\ (alg = "tabu_search" /\ tabu_tenure = 0) ~> (pc = "returned")

(* A run with tenure 0 has used every iteration and has returned a         *)
(* solution cheaper than its seed.                                         *)
C13_Witness ==
    /\ Returned("tabu_search")
    /\ tabu_tenure = 0
    /\ iteration = max_iterations
    /\ best_cost < total_cost(graph, initial_solution)

(* A run of tabu search that has left its loop by the break: the counter   *)
(* of the for loop has not reached the cap.                                *)
TabuStuck == Returned("tabu_search") /\ iteration < max_iterations

(* The action and the function agree on what a call returns. *)
TabuOutcomesAgree ==
    Returned("tabu_search") =>
        [ret |-> ret, stuck |-> iteration < max_iterations]
            \in tabu_search(graph, degree_bounds, initial_solution, tabu_tenure,
                            max_iterations)

(* C14: a run that stops because no non-tabu, degree-feasible move exists  *)
(* ends without an error, and what the caller receives from it differs     *)
(* from what the caller receives from a run that stops at the iteration    *)
(* cap (on the same instance, seed and cap, whatever its tenure).          *)
C14_StuckDistinguishable ==
    /\ TabuLoop => pc # "raised"
    /\ TabuStuck =>
          \A tenure \in 0 .. MaxTenure :
            \A o \in tabu_search(graph, degree_bounds, initial_solution, tenure,
                                 max_iterations) : ~o.stuck => o.ret # ret

(* The steps of one call of an optimizer. *)
OptimizerRuns == alg \in Optimizers /\ alg' = alg

(* C15: local search, simulated annealing and tabu search leave their      *)
(* inputs as they were: during a call the seed the caller passed, the      *)
(* graph (vertices, edge list with its weights) and the degree bounds do   *)
(* not change, and the tree being modified is never the caller's object.   *)
C15_InputsUnchanged ==
    /\ [][OptimizerRuns =>
            UNCHANGED <<initial_solution, vertices, edges, degree_bounds>>]_vars
    /\ [][alg' \in Optimizers => UNCHANGED <<vertices, edges, degree_bounds>>]_vars
    /\ [](alg \in Optimizers => ~aliased)

(* A call has ended on a tree other than its seed: returned by simulated   *)
(* annealing or tabu search; and a call of local search has built a        *)
(* candidate tree or read its seed's edges before it ended.                *)
C15_Witness ==
    /\ alg \in Optimizers
    /\ pc \in {"returned", "raised"}
    /\ initial_solution # <<>>
    /\ alg # "local_search" => pc = "returned" /\ ReturnedTree # SeedTree

(* The neighbours of the current solution that are not tabu and respect    *)
(* the degree bounds, with their moves.                                    *)
Admissible ==
    {nm \in generate_neighbor_with_move(graph, current_solution) :
        /\ \A k \in DOMAIN tabu_list : tabu_list[k] # nm.move
        /\ WithinBounds(nm.new_tree, degree_bounds)}

C16_Step ==
    TabuLoop /\ Admissible # {} =>
        \E nm \in Admissible :
            /\ current_solution' = nm.new_tree
            /\ current_cost' = total_cost_set(graph, nm.new_tree)
            /\ \A other \in Admissible :
                   current_cost' <= total_cost_set(graph, other.new_tree)
            /\ IF tabu_tenure = 0 THEN tabu_list' = <<>>
               ELSE /\ tabu_list' # <<>>
                    /\ tabu_list'[Len(tabu_list')] = nm.move

(* C16: in every iteration of tabu search with a neighbour that is not     *)
(* tabu and respects the degree bounds, the solution committed is one of   *)
(* lowest cost among those neighbours, whether or not it costs more than   *)
(* the current solution, and its move is appended to the tabu list (a list *)
(* of capacity 0 keeps nothing).                                           *)
C16_CommitsBestAdmissible == [][C16_Step]_vars

(* An iteration has committed a solution dearer than the one it left. *)
C16_Witness ==
    /\ alg = "tabu_search"
    /\ tabu_list # <<>>
    /\ current_cost > best_cost
    /\ current_cost = total_cost_set(graph, current_solution)

(* The last n entries of a list. *)
LastN(s, n) == SubSeq(s, Len(s) - n + 1, Len(s))

(* The moves of the current neighbourhood that lead to a given solution. *)
MovesTo(solution) ==
    {nm.move : nm \in {x \in generate_neighbor_with_move(graph, current_solution) :
                          x.new_tree = solution}}

(* iteration counts the committed moves.  The list after the commit number *)
(* k + 1 is the list after commit k with the new move behind it, cut to    *)
(* its last min(k + 1, tabu_tenure) entries.                               *)
C17_Step ==
    TabuLoop /\ iteration' = iteration + 1 =>
        \E move \in MovesTo(current_solution') :
            tabu_list' = LastN(Append(tabu_list, move),
                               IF iteration' < tabu_tenure THEN iteration'
                               ELSE tabu_tenure)

C17_Inv ==
    alg = "tabu_search" =>
        /\ Len(tabu_list) <= tabu_tenure
        /\ Len(tabu_list) = IF iteration < tabu_tenure THEN iteration ELSE tabu_tenure

(* C17: the tabu list is a recency queue of capacity tabu_tenure.  Its     *)
(* length never exceeds tabu_tenure, and after k committed moves it holds  *)
(* the last min(k, tabu_tenure) committed moves in commit order: it is     *)
(* empty before the first commit and each commit puts its move at the end  *)
(* and drops the oldest entry when the capacity would be exceeded.         *)
C17_TabuListIsRecencyQueue == []C17_Inv /\ [][C17_Step]_vars

(* Three moves were committed into a list of capacity 2: the first one has *)
(* been evicted.                                                           *)
C17_Witness ==
    /\ alg = "tabu_search"
    /\ tabu_tenure = 2
    /\ iteration = 3
    /\ Len(tabu_list) = 2

(* The moves of the current neighbourhood that are in the tabu list and    *)
(* lead to a tree within the degree bounds.                                *)
TabuMoves ==
    {nm \in generate_neighbor_with_move(graph, current_solution) :
        /\ \E k \in DOMAIN tabu_list : tabu_list[k] = nm.move
        /\ WithinBounds(nm.new_tree, degree_bounds)}

(* The move an iteration commits is the one it appends to the tabu list;   *)
(* an iteration whose feasible moves are all tabu commits nothing.         *)
C18_Step ==
    /\ TabuLoop /\ iteration' = iteration + 1 /\ tabu_tenure > 0 =>
            \A k \in DOMAIN tabu_list : tabu_list[k] # tabu_list'[Len(tabu_list')]
    /\ TabuLoop /\ TabuMoves # {} /\ Admissible = {} =>
            /\ pc' = "returned"
            /\ UNCHANGED <<current_solution, current_cost, best_solution, best_cost,
                           tabu_list, iteration>>

(* C18: tabu search has no aspiration criterion.  A move that is in the    *)
(* tabu list when the neighbourhood is scanned is not committed in that    *)
(* iteration, whatever the cost of its tree.                               *)
C18_NoAspiration == [][C18_Step]_vars

(* A scan meets a move of the tabu list whose tree is within the degree     *)
(* bounds and costs less than best_cost, and less than the tree of every   *)
(* move the scan lets through: the iteration commits a dearer tree.        *)
C18_Witness ==
    /\ TabuLoop
    /\ Admissible # {}
    /\ \E nm \in TabuMoves :
          /\ total_cost_set(graph, nm.new_tree) < best_cost
          /\ \A a \in Admissible :
                total_cost_set(graph, nm.new_tree) < total_cost_set(graph, a.new_tree)

(* A run has stopped on a neighbourhood whose only moves within the degree *)
(* bounds were tabu.                                                       *)
C18_StuckOnTabuMoves ==
    /\ TabuStuck
    /\ TabuMoves # {}

(* C19: in the neighbourhoods of simulated annealing and tabu search the   *)
(* edge a move adds is never an edge of the current tree, in particular    *)
(* never the edge the move removes, and no generated neighbour equals the  *)
(* current tree.                                                           *)
C19_AddedEdgeIsNonTree ==
    MetaLoop =>
        /\ \A nm \in generate_neighbor_with_move(graph, current_solution) :
              /\ nm.move[2] \notin current_solution
              /\ nm.move[2] # nm.move[1]
              /\ nm.new_tree # current_solution
        /\ \A neighbor \in generate_neighbor(graph, current_solution).trees :
              neighbor # current_solution

(* A list of two sets that partition the vertex set. *)
SplitsInTwo(components) ==
    /\ Len(components) = 2
    /\ components[1] # {} /\ components[2] # {}
    /\ components[1] \cap components[2] = {}
    /\ components[1] \cup components[2] = vertices

C20_LocalSearch ==
    /\ ListIsSpanningTree(current_tree)
    /\ \A i \in DOMAIN current_tree :
          LET split == connected_components_after_removal(vertices, current_tree,
                                                          current_tree[i])
          IN ~split.raised /\ SplitsInTwo(split.components)
    /\ \A candidate_tree \in ls_pass(vertices, edges, current_tree, current_cost,
                                     degree_bounds).built :
          ListIsSpanningTree(candidate_tree)

C20_Meta ==
    /\ IsSpanningTree(vertices, current_solution)
    /\ \A removed_edge \in current_solution :
          SplitsInTwo(connected_components(vertices, current_solution \ {removed_edge}))
    /\ \A nm \in generate_neighbor_with_move(graph, current_solution) :
          IsSpanningTree(vertices, nm.new_tree)
    /\ \A neighbor \in generate_neighbor(graph, current_solution).trees :
          IsSpanningTree(vertices, neighbor)
    /\ ~generate_neighbor(graph, current_solution).none

(* C20: edge swaps preserve spanning trees.  In a run seeded with a        *)
(* spanning tree the current solution is a spanning tree after every       *)
(* iteration, the removal of any one of its edges leaves two components    *)
(* that partition the vertex set, and every neighbour local search,        *)
(* generate_neighbor or generate_neighbor_with_move builds from it is a    *)
(* spanning tree: |V| - 1 distinct edges, acyclic, connected.              *)
C20_SwapsPreserveSpanningTrees ==
    (alg \in Optimizers /\ pc # "raised" /\ ListIsSpanningTree(initial_solution)) =>
        IF alg = "local_search" THEN C20_LocalSearch ELSE C20_Meta

(* Simulated annealing or tabu search stands, after an iteration, on a     *)
(* spanning tree of a four-vertex graph other than its seed.               *)
C20_MetaWitness ==
    /\ alg \in Meta
    /\ ListIsSpanningTree(initial_solution)
    /\ N = 4
    /\ iteration >= 1
    /\ current_solution # SeedTree

(* C20 for simulated annealing and tabu search alone. *)
C20_MetaSwapsPreserveSpanningTrees ==
    (alg \in Meta /\ pc # "raised" /\ ListIsSpanningTree(initial_solution)) => C20_Meta

(* A pass of local search either commits a swap, which strictly lowers     *)
(* current_cost and leads to another pass, or commits none, which ends the *)
(* loop with the tree returned as it stands.                               *)
C21_Step ==
    LSLoop =>
        IF improved'
        THEN /\ current_cost' < current_cost
             /\ current_tree' # current_tree
             /\ swaps' = swaps + 1
             /\ pc' = "loop"
        ELSE /\ pc' = "returned"
             /\ ret' = current_tree
             /\ UNCHANGED <<current_tree, current_cost, swaps>>

(* The swaps of a call are paid for by the cost of its seed. *)
C21_Variant ==
    alg = "local_search" =>
        /\ current_cost >= 0
        /\ current_cost + swaps <= tree_cost(initial_solution)

(* C21: local search terminates.  Each committed swap strictly lowers      *)
(* current_cost and is followed by a new scan, a scan that commits nothing *)
(* ends the loop, the number of swaps is bounded by the seed's cost, and   *)
(* every call returns.                                                     *)
C21_LocalSearchTerminates ==
    /\ [][C21_Step]_vars
    /\ []C21_Variant
    /\ (alg = "local_search") ~> (pc = "returned")

(* The two sides of a tree edge e in the edge set T: what remains joined   *)
(* to each of its endpoints once e is removed.                             *)
SideOf(T, e, x) == Closure({x}, T \ {e})

(* The single-edge swaps of the edge set T: a tree edge e out, a graph     *)
(* edge f outside T in, f joining the two sides of e.                      *)
Swaps(T) ==
    {<<e, f>> \in T \X (PairSet(edges) \ T) :
        \/ f[1] \in SideOf(T, e, e[1]) /\ f[2] \in SideOf(T, e, e[2])
        \/ f[1] \in SideOf(T, e, e[2]) /\ f[2] \in SideOf(T, e, e[1])}

LocalOptimum(T) ==
    \A sw \in Swaps(T) :
        LET candidate == (T \ {sw[1]}) \cup {sw[2]}
        IN \/ ~WithinBounds(candidate, degree_bounds)
           \/ ~(CostOf(edges, candidate) < CostOf(edges, T))

(* C22: a call of local search ends with a returned tree, and that tree is *)
(* a local optimum of the single-edge-swap neighbourhood: no swap of a     *)
(* tree edge e for a non-tree edge f joining the two sides of e keeps the  *)
(* degree bounds and costs strictly less.                                  *)
C22_ReturnedTreeIsLocalOptimum ==
    (alg = "local_search" /\ pc # "loop") =>
        /\ pc = "returned"
        /\ LocalOptimum(PairSet(ret))

(* Where local search does return, what it returns is a local optimum. *)
C22_WhatIsReturnedIsLocalOptimum ==
    Returned("local_search") => LocalOptimum(PairSet(ret))

(* The union-find component of a vertex: the vertices with its root. *)
UFComponent(x) == {y \in vertices : uf_root(uf.parent, y) = uf_root(uf.parent, x)}

(* The accepted edge set at a step of the scan: acyclic, at most n-1       *)
(* edges, every degree within its bound; the degree table and the          *)
(* union-find components are those of the accepted set; the scan is not in *)
(* its loop with n-1 edges accepted.                                       *)
C23_Inv ==
    (alg = "greedy") =>
        /\ Acyclic(Range(tree))
        /\ Len(tree) = Cardinality(Range(tree))
        /\ Len(tree) <= N - 1
        /\ WithinBounds(Range(tree), degree_bounds)
        /\ \A x \in vertices :
            /\ degree[x] = DegreeOf(Range(tree), x)
            /\ UFComponent(x) = Closure({x}, Range(tree))
        /\ (pc = "loop") => Len(tree) < N - 1 /\ pos <= Len(sorted_edges)
        /\ (pc = "returned") => Len(tree) = N - 1 \/ pos > Len(sorted_edges)

(* One scanned edge: it is appended exactly when its endpoints lie in      *)
(* different union-find components and both degrees are strictly below the *)
(* bounds, nothing else changes the accepted set, and the scan is left at  *)
(* once when the accepted set has n-1 edges.                               *)
C23_Step ==
    (alg = "greedy" /\ pc = "loop") =>
        LET e == sorted_edges[pos]
            accepted == /\ UFComponent(e[1]) # UFComponent(e[2])
                        /\ DegreeOf(Range(tree), e[1]) < degree_bounds[e[1]]
                        /\ DegreeOf(Range(tree), e[2]) < degree_bounds[e[2]]
        IN /\ pos' = pos + 1
           /\ tree' = IF accepted THEN Append(tree, e) ELSE tree
           /\ (Len(tree') = N - 1) => pc' = "returned"
           /\ (pc' = "returned") => Len(tree') = N - 1 \/ pos' > Len(sorted_edges)

(* C23: at every step of the greedy scan the accepted edge set is acyclic, *)
(* has at most n-1 edges and keeps every degree within its bound; a        *)
(* scanned edge is accepted if and only if its endpoints are in different  *)
(* union-find components and both degrees are strictly below their bounds; *)
(* the scan stops as soon as n-1 edges are accepted.                       *)
C23_GreedyScanInvariants == []C23_Inv /\ [][C23_Step]_vars

(* The scan was left by the break with an edge still unscanned, after it   *)
(* refused an edge whose endpoints were below their bounds and in one      *)
(* union-find component.                                                   *)
C23_Witness ==
    /\ Returned("greedy")
    /\ Len(tree) = N - 1
    /\ pos <= Len(sorted_edges)
    /\ \E i \in 1 .. pos - 1 :
        LET before == Range(tree) \cap Range(SubSeq(sorted_edges, 1, i - 1))
        IN /\ sorted_edges[i] \notin Range(tree)
           /\ WithinBounds(before \cup {sorted_edges[i]}, degree_bounds)
           /\ ~Acyclic(before \cup {sorted_edges[i]})

====
